---- MODULE Spec2Model ----
(***************************************************************************)
(* Model of src/nii.py: the DICOM -> NIfTI batch converter                 *)
(* (class DICOMtoNIIConverter).                                            *)
(*                                                                         *)
(* Python strings are modelled as sequences of one-character strings, so   *)
(* that substring tests, slicing, joining and sanitising are computed on   *)
(* characters as the code computes them.  An optional value (None or a     *)
(* value) is modelled as the empty sequence or a one-element sequence.     *)
(***************************************************************************)
EXTENDS Integers, Sequences, FiniteSets, TLC

VARIABLES
    pc,               \* position of the running operation
    scan_types_info,  \* self.scan_types_info, the keyword / range table
    cls_md,           \* argument of a stand-alone determine_scan_type call
    cls_label,        \* value returned by that call
    cls_other,        \* value returned by a call made in between
    cls_again,        \* value returned by a repeated call on cls_md
    filepaths,        \* argument of a stand-alone sort_dicom_slices call
    sort_result,      \* outcome of that call
    tree,             \* the input directory tree: its files in os.walk order
    dcm_files,        \* find_dicom_series: the discovered files
    dicom_series,     \* the series groups, in dict insertion order
    idx,              \* loop index of the running for-loop
    cur,              \* locals of the running convert_series_to_nifti call
    results,          \* process_all_series: results
    summary,          \* process_all_series: summary (scan type -> count)
    fs,               \* the output directory: file name -> content
    now,              \* the wall clock (seconds)
    attempts,         \* history: series key -> conversions attempted
    report,           \* the reports written by save_report
    name_in,          \* a series whose output file name is built on its own
    name_out,         \* the patient id and the name components built for it
    order_runs        \* outcomes of the conversion loop run in two orders

vars == <<pc, scan_types_info, cls_md, cls_label, cls_other, cls_again,
          filepaths, sort_result,
          tree, dcm_files, dicom_series, idx, cur, results, summary, fs, now,
          attempts, report, name_in, name_out, order_runs>>

batchVars == <<tree, dcm_files, dicom_series, idx, cur, results, summary, fs,
               now, attempts, report>>

helperVars == <<name_in, name_out, order_runs>>

sortVars == <<filepaths, sort_result>>
clsVars == <<cls_md, cls_label, cls_other, cls_again>>

(***************************************************************************)
(* Bounds of the explored inputs.                                          *)
(***************************************************************************)
MaxTokens == 2        \* words per generated series description
MaxSlices == 3        \* files handed to a stand-alone sort_dicom_slices call
MaxFiles == 3         \* files in the input tree of a batch run
SampleCeiling == 2    \* files analysed by find_dicom_series: 500 in the source
                      \* (line 171), scaled to the explored tree sizes
MaxClock == 1         \* seconds the wall clock may advance during a run

(***************************************************************************)
(* Constants of the program.                                               *)
(***************************************************************************)
KeyNumberWidth == 4       \* {series_num:04d}
KeyDescLength == 50       \* SeriesDescription[:50] in the series key
PatientLength == 20       \* patient_id[:20]
DescLength == 30          \* series_desc[:30]
MaxFilenameLength == 200  \* safe_filename(max_length=200)
ExtensionReserve == 10    \* max_length - 10

(***************************************************************************)
(* Optional values.                                                        *)
(***************************************************************************)
None == <<>>
Some(x) == <<x>>

(***************************************************************************)
(* Python string primitives on character sequences.                        *)
(***************************************************************************)
\* `kw in text`
Contains(text, kw) ==
    \E i \in 1..(Len(text) - Len(kw) + 1) : SubSeq(text, i, i + Len(kw) - 1) = kw

\* `sep.join(parts)`
RECURSIVE Join(_, _)
Join(parts, sep) ==
    IF Len(parts) = 0 THEN <<>>
    ELSE IF Len(parts) = 1 THEN parts[1]
    ELSE parts[1] \o sep \o Join(Tail(parts), sep)

\* `s[:n]`
Prefix(s, n) == SubSeq(s, 1, IF Len(s) < n THEN Len(s) ELSE n)

Digit(i) == <<"0","1","2","3","4","5","6","7","8","9">>[i + 1]

\* `s.endswith(suffix)`
EndsWith(s, suffix) ==
    Len(s) >= Len(suffix) /\ SubSeq(s, Len(s) - Len(suffix) + 1, Len(s)) = suffix

UpperAlphabet ==
    << "A","B","C","D","E","F","G","H","I","J","K","L","M",
       "N","O","P","Q","R","S","T","U","V","W","X","Y","Z" >>
LowerAlphabet ==
    << "a","b","c","d","e","f","g","h","i","j","k","l","m",
       "n","o","p","q","r","s","t","u","v","w","x","y","z" >>

\* `s.lower()`
LowerChar(c) ==
    IF \E i \in DOMAIN UpperAlphabet : UpperAlphabet[i] = c
    THEN LowerAlphabet[CHOOSE i \in DOMAIN UpperAlphabet : UpperAlphabet[i] = c]
    ELSE c
Lower(s) == [i \in DOMAIN s |-> LowerChar(s[i])]

\* `s.strip(chars)`
RECURSIVE LStrip(_, _)
LStrip(s, chars) ==
    IF s # <<>> /\ Head(s) \in chars THEN LStrip(Tail(s), chars) ELSE s
RECURSIVE RStrip(_, _)
RStrip(s, chars) ==
    IF s # <<>> /\ s[Len(s)] \in chars THEN RStrip(SubSeq(s, 1, Len(s) - 1), chars) ELSE s
StripChars(s, chars) == RStrip(LStrip(s, chars), chars)

Whitespace == { " ", "\t", "\n" }
\* `s.strip()`
Strip(s) == StripChars(s, Whitespace)

\* `s.replace(old, '')`: every non-overlapping occurrence, left to right
RECURSIVE RemoveAll(_, _)
RemoveAll(s, old) ==
    IF Len(s) < Len(old) THEN s
    ELSE IF SubSeq(s, 1, Len(old)) = old
         THEN RemoveAll(SubSeq(s, Len(old) + 1, Len(s)), old)
         ELSE <<Head(s)>> \o RemoveAll(Tail(s), old)

\* `str(n)` for an int
RECURSIVE DecimalNat(_)
DecimalNat(n) ==
    IF n < 10 THEN <<Digit(n)>> ELSE DecimalNat(n \div 10) \o <<Digit(n % 10)>>
Decimal(n) == IF n < 0 THEN <<"-">> \o DecimalNat(0 - n) ELSE DecimalNat(n)

RECURSIVE ZeroPad(_, _)
ZeroPad(digits, width) ==
    IF Len(digits) >= width THEN digits ELSE ZeroPad(<<"0">> \o digits, width)

\* `f"{n:04d}"`
Format04d(n) ==
    IF n < 0 THEN <<"-">> \o ZeroPad(DecimalNat(0 - n), KeyNumberWidth - 1)
    ELSE ZeroPad(DecimalNat(n), KeyNumberWidth)

(***************************************************************************)
(* __init__: the scan-type table, an insertion-ordered dict.               *)
(***************************************************************************)
ScanTypesInfo ==
    << [name |-> "T1",
        keywords |-> << <<"t","1">>, <<"t","1","_">>, <<"t","1","w">>,
                        <<"t","1","-","w">>, <<"m","p","r","a","g","e">>,
                        <<"b","r","a","v","o">>, <<"s","p","g","r">> >>,
        TE_range |-> <<2, 30>>, TR_range |-> <<300, 800>>],
       [name |-> "T1-CE",
        keywords |-> << <<"t","1">>, <<"t","1","_">>, <<"t","1","w">>,
                        <<"+","c">>, <<"c","o","n","t","r","a","s","t">>,
                        <<"c","e">>, <<"p","o","s","t">> >>,
        TE_range |-> <<2, 30>>, TR_range |-> <<300, 800>>],
       [name |-> "T2",
        keywords |-> << <<"t","2">>, <<"t","2","_">>, <<"t","2","w">>,
                        <<"t","2","-","w">>, <<"t","s","e">>,
                        <<"h","a","s","t","e">> >>,
        TE_range |-> <<80, 150>>, TR_range |-> <<2000, 6000>>],
       [name |-> "FLAIR",
        keywords |-> << <<"f","l","a","i","r">>, <<"f","l","u","i","d">>,
                        <<"d","a","r","k"," ","f","l","u","i","d">> >>,
        TE_range |-> <<80, 150>>, TR_range |-> <<8000, 12000>>],
       [name |-> "DWI",
        keywords |-> << <<"d","w","i">>,
                        <<"d","i","f","f","u","s","i","o","n">> >>,
        TE_range |-> <<50, 100>>, TR_range |-> <<3000, 8000>>],
       [name |-> "ADC",
        keywords |-> << <<"a","d","c">> >>,
        TE_range |-> <<50, 100>>, TR_range |-> <<3000, 8000>>] >>

\* the record built at lines 73-92 (the fields this module reads)
Metadata(desc, protocol, sequence, options, agent, te, tr, number, patient) ==
    [ SeriesDescription |-> desc, ProtocolName |-> protocol,
      SequenceName |-> sequence, ScanOptions |-> options,
      ContrastBolusAgent |-> agent,
      EchoTime |-> te, RepetitionTime |-> tr,
      SeriesNumber |-> number, PatientID |-> patient ]

(***************************************************************************)
(* determine_scan_type                                                     *)
(***************************************************************************)
\* lines 107-114: the contrast test
HasContrast(metadata) ==
    LET series_desc == metadata.SeriesDescription IN
    \/ Contains(series_desc, <<"+","c">>)
    \/ Contains(series_desc, <<"c","o","n","t","r","a","s","t">>)
    \/ Contains(series_desc, <<"c","e">>)
    \/ Contains(series_desc, <<"p","o","s","t">>)
    \/ Contains(series_desc, <<"g","d">>)
    \/ metadata.ContrastBolusAgent # <<>>

\* lines 117-124: the concatenated text fields
TextCombined(metadata) ==
    Join(<< metadata.SeriesDescription, metadata.ProtocolName,
            metadata.SequenceName, metadata.ScanOptions >>, <<" ">>)

\* Faulty variant of the keyword loop: the last matching table row wins.
RECURSIVE KeywordLoop_LastMatchWins(_, _, _, _)
KeywordLoop_LastMatchWins(info, text_combined, has_contrast, i) ==
    IF i > Len(info) THEN None
    ELSE LET later == KeywordLoop_LastMatchWins(info, text_combined, has_contrast, i + 1)
         IN IF later # None THEN later
            ELSE IF \E k \in 1..Len(info[i].keywords) :
                        Contains(text_combined, info[i].keywords[k])
                 THEN IF info[i].name = "T1" /\ has_contrast
                      THEN Some("T1-CE")
                      ELSE Some(info[i].name)
                 ELSE None

\* lines 127-133: the keyword loop from table row i on; None when it ends
RECURSIVE KeywordLoop(_, _, _, _)
KeywordLoop(info, text_combined, has_contrast, i) ==
    IF i > Len(info) THEN None
    ELSE IF \E k \in 1..Len(info[i].keywords) :
                Contains(text_combined, info[i].keywords[k])
         THEN IF info[i].name = "T1" /\ has_contrast
              THEN Some("T1-CE")
              ELSE Some(info[i].name)
         ELSE KeywordLoop(info, text_combined, has_contrast, i + 1)

\* Faulty variant of the range test: the bounds are exclusive.
RangeLoop_ExclusiveBounds(info, te, tr, has_contrast, i) ==
    LET fits == { k \in i..Len(info) :
                    /\ info[k].TE_range[1] < te /\ te < info[k].TE_range[2]
                    /\ info[k].TR_range[1] < tr /\ tr < info[k].TR_range[2] }
        first == CHOOSE k \in fits : \A j \in fits : k <= j
    IN IF fits = {} THEN None
       ELSE IF info[first].name = "T1" /\ has_contrast THEN Some("T1-CE")
       ELSE Some(info[first].name)

\* lines 139-144: the timing-range loop from table row i on
RECURSIVE RangeLoop(_, _, _, _, _)
RangeLoop(info, te, tr, has_contrast, i) ==
    IF i > Len(info) THEN None
    ELSE IF /\ info[i].TE_range[1] <= te /\ te <= info[i].TE_range[2]
            /\ info[i].TR_range[1] <= tr /\ tr <= info[i].TR_range[2]
         THEN IF info[i].name = "T1" /\ has_contrast
              THEN Some("T1-CE")
              ELSE Some(info[i].name)
         ELSE RangeLoop(info, te, tr, has_contrast, i + 1)

\* Faulty variant of the final default: a label outside the vocabulary.
MultiplanarRule_OtherDefault(text_combined) ==
    IF \/ Contains(text_combined, <<"m","p","r">>)
       \/ Contains(text_combined, <<"m","u","l","t","i","p","l","a","n","a","r">>)
    THEN IF Contains(text_combined, <<"t","1">>) THEN "T1-MPR"
         ELSE IF Contains(text_combined, <<"t","2">>) THEN "T2-MPR"
         ELSE "MPR"
    ELSE "Other"

\* lines 147-155: the multiplanar heuristic and the final default
MultiplanarRule(text_combined) ==
    IF \/ Contains(text_combined, <<"m","p","r">>)
       \/ Contains(text_combined, <<"m","u","l","t","i","p","l","a","n","a","r">>)
    THEN IF Contains(text_combined, <<"t","1">>) THEN "T1-MPR"
         ELSE IF Contains(text_combined, <<"t","2">>) THEN "T2-MPR"
         ELSE "MPR"
    ELSE "Unknown"

\* Faulty variant: the multiplanar test comes before the keyword loop.
determine_scan_type_MultiplanarFirst(info, metadata) ==
    IF metadata = None THEN "Unknown"
    ELSE
      LET md == metadata[1]
          has_contrast == HasContrast(md)
          text_combined == TextCombined(md)
          byKeyword == KeywordLoop(info, text_combined, has_contrast, 1)
          te == md.EchoTime
          tr == md.RepetitionTime
          byRange == IF te > 0 /\ tr > 0
                     THEN RangeLoop(info, te, tr, has_contrast, 1)
                     ELSE None
      IN IF MultiplanarRule(text_combined) # "Unknown"
         THEN MultiplanarRule(text_combined)
         ELSE IF byKeyword # None THEN byKeyword[1]
         ELSE IF byRange # None THEN byRange[1]
         ELSE "Unknown"

\* lines 98-155; `metadata` is None or Some(record)
determine_scan_type(info, metadata) ==
    IF metadata = None THEN "Unknown"
    ELSE
      LET md == metadata[1]
          has_contrast == HasContrast(md)
          text_combined == TextCombined(md)
          byKeyword == KeywordLoop(info, text_combined, has_contrast, 1)
          te == md.EchoTime
          tr == md.RepetitionTime
          byRange == IF te > 0 /\ tr > 0
                     THEN RangeLoop(info, te, tr, has_contrast, 1)
                     ELSE None
      IN IF byKeyword # None THEN byKeyword[1]
         ELSE IF byRange # None THEN byRange[1]
         ELSE MultiplanarRule(text_combined)

\* the first table row with a keyword inside the text, 0 when there is none
FirstKeywordRow(info, metadata) ==
    LET text == TextCombined(metadata)
        rows == { i \in DOMAIN info :
                    \E k \in DOMAIN info[i].keywords : Contains(text, info[i].keywords[k]) }
    IN IF rows = {} THEN 0 ELSE CHOOSE i \in rows : \A j \in rows : i <= j

\* Faulty variant: the matched row is moved to the front of the table.
TableAfterCall_MatchedRowFirst(info, metadata) ==
    IF metadata = None \/ FirstKeywordRow(info, metadata[1]) = 0 THEN info
    ELSE LET r == FirstKeywordRow(info, metadata[1])
         IN <<info[r]>> \o SubSeq(info, 1, r - 1) \o SubSeq(info, r + 1, Len(info))

\* lines 127, 139: self.scan_types_info is only read by a call
TableAfterCall(info, metadata) == info

(***************************************************************************)
(* A slice file on disk.  A file is a record; the fields read by           *)
(* pydicom.dcmread are the attributes of the dataset `ds`.                 *)
(*   pixel_ok               dcmread(stop_before_pixels=False) succeeds     *)
(*   InstanceNumber         None when the attribute is absent              *)
(*   SliceLocation          None when absent, Some(None) when the element  *)
(*                          is present without a value, Some(Some(v))      *)
(*   ImagePositionPatient   None when absent, else Some(z)                 *)
(*   Modality               the raw attribute, <<>> when absent            *)
(*   RescaleSlope, RescaleIntercept, SliceThickness                        *)
(*                          None when absent, else Some(v)                 *)
(*   PixelSpacing           None when absent, else Some(list of values)    *)
(*   pixel                  the stored value of the pixels of pixel_array  *)
(* Positions, spacings and thicknesses (DS) are counted in half            *)
(* millimetres; InstanceNumber is an integer (IS).                         *)
(***************************************************************************)
DefaultFile ==
    [ path |-> [dir |-> << <<"P","8">>, <<"s","t">> >>, name |-> <<"f",".","d","c","m">>],
      header_ok |-> TRUE,
      SeriesNumber |-> 1,
      SeriesDescription |-> <<"t","1">>,
      ProtocolName |-> <<>>, SequenceName |-> <<>>, ScanOptions |-> <<>>,
      ContrastBolusAgent |-> <<>>, PatientID |-> <<"P","8">>,
      EchoTime |-> 0, RepetitionTime |-> 0,
      pixel_ok |-> TRUE, has_pixels |-> TRUE,
      InstanceNumber |-> None,
      SliceLocation |-> None,
      ImagePositionPatient |-> None,
      shape |-> <<2, 2>>,
      Modality |-> <<"M","R">>,
      RescaleSlope |-> None, RescaleIntercept |-> None,
      PixelSpacing |-> None, SliceThickness |-> None,
      pixel |-> 7 ]

\* the i-th file of a directory listing
NamedFile(f, i) ==
    [f EXCEPT !.path = [dir |-> f.path.dir,
                        name |-> <<"f", Digit(i)>> \o SubSeq(f.path.name, 2, Len(f.path.name))]]

(***************************************************************************)
(* sort_dicom_slices                                                       *)
(***************************************************************************)
NotCalled == [raised |-> FALSE, value |-> <<>>, called |-> FALSE]
Returned(v) == [raised |-> FALSE, value |-> v, called |-> TRUE]
Raised == [raised |-> TRUE, value |-> <<>>, called |-> TRUE]

\* a number as the code holds it: a decimal string value (DS, in halves),
\* an integer (IS / int), or None
DS(v) == [kind |-> "DS", v |-> v]
IS(n) == [kind |-> "IS", v |-> n]
NoValue == [kind |-> "None", v |-> 0]

\* float(x): defined on numbers, a TypeError on None
FloatDefined(x) == x.kind # "None"
Float(x) == IF x.kind = "IS" THEN x.v * 2 ELSE x.v

\* Faulty variant: the image position is preferred to the slice location.
SliceInfo_ImagePositionFirst(ds) ==
    LET instance_num == IF ds.InstanceNumber = None THEN 0 ELSE ds.InstanceNumber[1]
        slice_pos ==
            IF ds.ImagePositionPatient # None
            THEN DS(ds.ImagePositionPatient[1])
            ELSE IF ds.SliceLocation # None
                 THEN IF ds.SliceLocation[1] = None THEN NoValue
                      ELSE DS(ds.SliceLocation[1][1])
                 ELSE IS(instance_num)
    IN [slice_pos |-> slice_pos, instance_num |-> instance_num,
        filepath |-> ds.path, ds |-> ds]

\* lines 195-205: the tuple appended for one readable dataset
SliceInfo(ds) ==
    LET instance_num == IF ds.InstanceNumber = None THEN 0 ELSE ds.InstanceNumber[1]
        slice_pos ==
            IF ds.SliceLocation # None
            THEN IF ds.SliceLocation[1] = None THEN NoValue
                 ELSE DS(ds.SliceLocation[1][1])
            ELSE IF ds.ImagePositionPatient # None
                 THEN DS(ds.ImagePositionPatient[1])
                 ELSE IS(instance_num)
    IN [slice_pos |-> slice_pos, instance_num |-> instance_num,
        filepath |-> ds.path, ds |-> ds]

\* Faulty variant of the read loop: it ends at the first unreadable file.
RECURSIVE ReadSlices_StopsAtUnreadable(_)
ReadSlices_StopsAtUnreadable(paths) ==
    IF paths = <<>> THEN <<>>
    ELSE IF Head(paths).pixel_ok
         THEN <<SliceInfo(Head(paths))>> \o ReadSlices_StopsAtUnreadable(Tail(paths))
         ELSE <<>>

\* lines 192-208: the read loop; a file that fails to read is skipped
RECURSIVE ReadSlices(_)
ReadSlices(paths) ==
    IF paths = <<>> THEN <<>>
    ELSE IF Head(paths).pixel_ok
         THEN <<SliceInfo(Head(paths))>> \o ReadSlices(Tail(paths))
         ELSE ReadSlices(Tail(paths))

\* Faulty variant of the sort key: the instance number is left out.
SortKey_PositionOnly(x) == <<Float(x.slice_pos), 0>>

\* line 211: key=lambda x: (float(x[0]), x[1])
SortKey(x) == <<Float(x.slice_pos), x.instance_num>>

\* tuple comparison of two keys
KeyLess(a, b) == a[1] < b[1] \/ (a[1] = b[1] /\ a[2] < b[2])

\* list.sort is stable: x goes behind every element whose key is not greater
RECURSIVE InsertStable(_, _)
InsertStable(sorted, x) ==
    IF sorted = <<>> THEN <<x>>
    ELSE IF KeyLess(SortKey(x), SortKey(Head(sorted)))
         THEN <<x>> \o sorted
         ELSE <<Head(sorted)>> \o InsertStable(Tail(sorted), x)

RECURSIVE StableSort(_, _)
StableSort(done, todo) ==
    IF todo = <<>> THEN done
    ELSE StableSort(InsertStable(done, Head(todo)), Tail(todo))

\* lines 188-213
sort_dicom_slices(paths) ==
    LET slices_info == ReadSlices(paths) IN
    IF \E i \in DOMAIN slices_info : ~ FloatDefined(slices_info[i].slice_pos)
    THEN Raised
    ELSE Returned(StableSort(<<>>, slices_info))

(***************************************************************************)
(* safe_filename                                                           *)
(***************************************************************************)
\* line 33: the character class [<>:"/\\|?*:\-><]
InvalidChars == { "<", ">", ":", "\"", "/", "\\", "|", "?", "*", "-" }

\* characters for which str.isprintable() is false
NonPrintable == { "\t", "\n" }

StripSet == { ".", "_", " " }

\* re.sub(class+, repl, s)
RECURSIVE CollapseRuns(_, _, _)
CollapseRuns(s, class, repl) ==
    IF s = <<>> THEN <<>>
    ELSE IF Head(s) \in class
         THEN <<repl>> \o CollapseRuns(LStrip(s, class), class, repl)
         ELSE <<Head(s)>> \o CollapseRuns(Tail(s), class, repl)

\* index of the last "." of s, 0 when there is none
LastDot(s) ==
    IF \E i \in DOMAIN s : s[i] = "."
    THEN CHOOSE i \in DOMAIN s : s[i] = "." /\ \A j \in (i + 1)..Len(s) : s[j] # "."
    ELSE 0

\* os.path.splitext on a name without separators: the extension starts at
\* the last dot unless only dots precede it
SplitExt(s) ==
    LET d == LastDot(s) IN
    IF d > 0 /\ \E i \in 1..(d - 1) : s[i] # "."
    THEN [name |-> SubSeq(s, 1, d - 1), ext |-> SubSeq(s, d, Len(s))]
    ELSE [name |-> s, ext |-> <<>>]

\* lines 33-50: the name before the emptiness test
Sanitized(filename, max_length) ==
    LET replaced == [i \in DOMAIN filename |->
                        IF filename[i] \in InvalidChars THEN "_" ELSE filename[i]]
        printable == SelectSeq(replaced, LAMBDA c : c \notin NonPrintable)
        spaced == CollapseRuns(printable, Whitespace, "_")
        collapsed == CollapseRuns(spaced, {"_"}, "_")
        parts == SplitExt(collapsed)
    IN IF Len(collapsed) > max_length
       THEN IF Len(parts.ext) < max_length - ExtensionReserve
            THEN Prefix(parts.name, max_length - Len(parts.ext)) \o parts.ext
            ELSE Prefix(collapsed, max_length)
       ELSE collapsed

\* line 53: the call reads the clock exactly when nothing is left
ReadsClock(filename, max_length) ==
    StripChars(Sanitized(filename, max_length), StripSet) = <<>>

\* strftime('%Y%m%d_%H%M%S') at second t of the modelled day
Stamp(t) ==
    <<"2","0","2","4","0","1","0","1","_","0","0","0","0">> \o ZeroPad(DecimalNat(t), 2)

\* lines 30-56; t is the clock value the call would read
safe_filename(filename, max_length, t) ==
    LET kept == Sanitized(filename, max_length)
        named == IF StripChars(kept, StripSet) = <<>>
                 THEN <<"s","e","r","i","e","s","_">> \o Stamp(t)
                 ELSE kept
    IN StripChars(named, StripSet)

(***************************************************************************)
(* extract_dicom_metadata                                                  *)
(***************************************************************************)
\* lines 64-71
safe_get(value) == Strip(Lower(value))

\* lines 58-96: None when the header cannot be read
extract_dicom_metadata(dcm_file) ==
    IF ~ dcm_file.header_ok THEN None
    ELSE Some(Metadata(safe_get(dcm_file.SeriesDescription),
                       safe_get(dcm_file.ProtocolName),
                       safe_get(dcm_file.SequenceName),
                       safe_get(dcm_file.ScanOptions),
                       safe_get(dcm_file.ContrastBolusAgent),
                       dcm_file.EchoTime, dcm_file.RepetitionTime,
                       dcm_file.SeriesNumber,
                       safe_get(dcm_file.PatientID)))

(***************************************************************************)
(* find_dicom_series                                                       *)
(***************************************************************************)
Extensions ==
    { <<".","d","c","m">>, <<".","d","i","c","o","m">>, <<".","i","m","a">> }

\* line 165
HasDicomExtension(file) ==
    \E e \in Extensions : EndsWith(Lower(file.path.name), e)

\* lines 163-166
Walk(files) == SelectSeq(files, HasDicomExtension)

\* line 171: dcm_files[:min(500, len(dcm_files))]
Sampled(files) == Prefix(files, SampleCeiling)

\* line 175
SeriesKey(metadata) ==
    Format04d(metadata.SeriesNumber) \o <<"_">>
        \o Prefix(metadata.SeriesDescription, KeyDescLength)

HasKey(series, key) == \E i \in DOMAIN series : series[i].key = key
IndexOfKey(series, key) == CHOOSE i \in DOMAIN series : series[i].key = key

\* Faulty variant: the file that opens a group is not put into it.
AddToSeries_FirstFileLost(series, key, metadata, dcm_file) ==
    IF ~ HasKey(series, key)
    THEN Append(series, [key |-> key, files |-> <<>>, metadata |-> metadata,
                         sample_file |-> dcm_file.path])
    ELSE [series EXCEPT ![IndexOfKey(series, key)].files = Append(@, dcm_file)]

\* Faulty variant: the group takes the metadata and the sample file of the
\* file added last.
AddToSeries_LastFileRepresents(series, key, metadata, dcm_file) ==
    IF ~ HasKey(series, key)
    THEN Append(series, [key |-> key, files |-> <<dcm_file>>, metadata |-> metadata,
                         sample_file |-> dcm_file.path])
    ELSE [series EXCEPT ![IndexOfKey(series, key)] =
            [key |-> key, files |-> Append(@.files, dcm_file),
             metadata |-> metadata, sample_file |-> dcm_file.path]]

\* lines 177-184
AddToSeries(series, key, metadata, dcm_file) ==
    IF ~ HasKey(series, key)
    THEN Append(series, [key |-> key, files |-> <<dcm_file>>, metadata |-> metadata,
                         sample_file |-> dcm_file.path])
    ELSE [series EXCEPT ![IndexOfKey(series, key)].files = Append(@, dcm_file)]

(***************************************************************************)
(* convert_series_to_nifti, up to the output file name (lines 217-286)     *)
(***************************************************************************)
NoCall ==
    [ outcome |-> "none", key |-> <<>>, scan_type |-> "", filename |-> <<>>,
      series_number |-> 0, shape |-> <<>>, original_files |-> 0,
      volume |-> <<>>, voxel_size |-> <<>> ]

\* the characters of a scan-type label inside an f-string
LabelText(label) ==
    CASE label = "T1" -> <<"T","1">>
      [] label = "T1-CE" -> <<"T","1","-","C","E">>
      [] label = "T2" -> <<"T","2">>
      [] label = "FLAIR" -> <<"F","L","A","I","R">>
      [] label = "DWI" -> <<"D","W","I">>
      [] label = "ADC" -> <<"A","D","C">>
      [] label = "T1-MPR" -> <<"T","1","-","M","P","R">>
      [] label = "T2-MPR" -> <<"T","2","-","M","P","R">>
      [] label = "MPR" -> <<"M","P","R">>
      [] OTHER -> <<"U","n","k","n","o","w","n">>

\* line 282: self.safe_filename(patient_id[:20])
SafePatientId(patient_id, t) ==
    safe_filename(Prefix(patient_id, PatientLength), MaxFilenameLength, t)

\* line 283: self.safe_filename(series_desc[:30])
SafeSeriesDesc(series_desc, t) ==
    safe_filename(Prefix(series_desc, DescLength), MaxFilenameLength, t)

\* lines 282-285
OutputFilename(patient_id, scan_type, series_num, series_desc, t1, t2) ==
    LET safe_patient_id == SafePatientId(patient_id, t1)
        safe_series_desc == SafeSeriesDesc(series_desc, t2)
    IN safe_patient_id \o <<"_">> \o LabelText(scan_type) \o <<"_","S">>
         \o Decimal(series_num) \o <<"_">> \o safe_series_desc
         \o <<".","n","i","i",".","g","z">>

\* lines 289, 292, 297: filepath.replace('.gz', '')
IntermediateName(filename) == RemoveAll(filename, <<".","g","z">>)

\* lines 240-261: pixel_array of every slice, then np.stack
CanStack(sorted_slices) ==
    /\ \A i \in DOMAIN sorted_slices : sorted_slices[i].ds.has_pixels
    /\ \A i \in DOMAIN sorted_slices :
         sorted_slices[i].ds.shape = sorted_slices[1].ds.shape

\* Faulty variant: every slice with both rescale attributes is rescaled.
Rescaled_AnyModality(ds) ==
    IF ds.RescaleSlope # None /\ ds.RescaleIntercept # None
    THEN ds.pixel * ds.RescaleSlope[1] + ds.RescaleIntercept[1]
    ELSE ds.pixel

\* lines 251-256: the pixel values of one slice as they are stacked
Rescaled(ds) ==
    IF ds.Modality = <<"C","T">>
    THEN IF ds.RescaleSlope # None /\ ds.RescaleIntercept # None
         THEN ds.pixel * ds.RescaleSlope[1] + ds.RescaleIntercept[1]
         ELSE ds.pixel
    ELSE ds.pixel

\* lines 248-261: the planes along the last axis of np.stack(slice_data, axis=-1)
Stack(sorted_slices) ==
    [i \in 1..Len(sorted_slices) |-> Rescaled(sorted_slices[i].ds)]

\* lines 265-272: the diagonal of the affine; the default 1.0 is 2 half
\* millimetres
AffineDiagonal(ds_sample) ==
    LET pixel_spacing == IF ds_sample.PixelSpacing = None THEN <<2, 2>>
                         ELSE ds_sample.PixelSpacing[1]
        slice_thickness == IF ds_sample.SliceThickness = None THEN 2
                           ELSE ds_sample.SliceThickness[1]
    IN << IF Len(pixel_spacing) > 0 THEN pixel_spacing[1] ELSE 2,
          IF Len(pixel_spacing) > 1 THEN pixel_spacing[2] ELSE 2,
          slice_thickness >>

\* lines 217-286: the locals when serialization starts, or the failure
PrepareSeries(info, series_info, patient_id, t1, t2) ==
    LET scan_type == determine_scan_type(info, Some(series_info.metadata))
        sorted == sort_dicom_slices(series_info.files)
        failed == [NoCall EXCEPT !.outcome = "failed", !.key = series_info.key,
                                 !.scan_type = scan_type]
    IN IF series_info.files = <<>> THEN failed
       ELSE IF sorted.raised \/ sorted.value = <<>> THEN failed
       ELSE IF ~ CanStack(sorted.value) THEN failed
       ELSE [ outcome |-> "saving", key |-> series_info.key,
              scan_type |-> scan_type,
              filename |-> OutputFilename(patient_id, scan_type,
                                          series_info.metadata.SeriesNumber,
                                          series_info.metadata.SeriesDescription,
                                          t1, t2),
              series_number |-> series_info.metadata.SeriesNumber,
              shape |-> sorted.value[1].ds.shape \o <<Len(sorted.value)>>,
              original_files |-> Len(series_info.files),
              volume |-> Stack(sorted.value),
              voxel_size |-> AffineDiagonal(sorted.value[1].ds) ]

\* line 275: nib.Nifti1Image(volume, affine) derives the quaternion form
\* from the affine; whether the library rejects an affine with a zero on
\* the diagonal is not decided by this repository, so both outcomes occur
Singular(c) == \E k \in DOMAIN c.voxel_size : c.voxel_size[k] = 0

\* lines 217-286 with the outcome of the library call
ConvertStart(info, series_info, patient_id, t1, t2, accepts) ==
    LET c == PrepareSeries(info, series_info, patient_id, t1, t2)
    IN IF c.outcome = "saving" /\ Singular(c) /\ ~ accepts
       THEN [NoCall EXCEPT !.outcome = "failed", !.key = c.key,
                           !.scan_type = c.scan_type]
       ELSE c

\* lines 301-308
ResultRecord(c) ==
    [ filename |-> c.filename, scan_type |-> c.scan_type,
      series_number |-> c.series_number, shape |-> c.shape,
      original_files |-> c.original_files, voxel_size |-> c.voxel_size ]

(***************************************************************************)
(* process_all_series and save_report                                      *)
(***************************************************************************)
\* Faulty variant: the folder holding the sample file is taken.
FolderTwoUp_ParentFolder(path) ==
    IF Len(path.dir) >= 1 THEN path.dir[Len(path.dir)] ELSE <<>>

\* os.path.basename(os.path.dirname(os.path.dirname(sample_path)))
FolderTwoUp(path) ==
    IF Len(path.dir) >= 2 THEN path.dir[Len(path.dir) - 1] ELSE <<>>

\* lines 346-351
PatientId(series_info) ==
    LET patient_id == series_info.metadata.PatientID
        folder_name == FolderTwoUp(series_info.sample_file)
    IN IF patient_id = <<>> \/ patient_id = <<"u","n","k","n","o","w","n">>
       THEN IF folder_name # <<>> THEN folder_name
            ELSE <<"P","a","t","i","e","n","t","_","2","0","2","4","0","1","0","1">>
       ELSE patient_id

\* Faulty variant: the value returned for a failed series is recorded too.
NextResults_RecordsFailures(rs, c) == Append(rs, ResultRecord(c))

\* line 356
NextResults(rs, c) ==
    IF c.outcome = "ok" THEN Append(rs, ResultRecord(c)) ELSE rs

\* Faulty variant: the counter is set, not incremented.
NextSummary_SetToOne(sm, c) ==
    IF c.outcome = "ok"
    THEN [t \in DOMAIN sm \cup {c.scan_type} |-> IF t = c.scan_type THEN 1 ELSE sm[t]]
    ELSE sm

\* lines 357-360
NextSummary(sm, c) ==
    IF c.outcome = "ok"
    THEN [t \in DOMAIN sm \cup {c.scan_type} |->
            IF t = c.scan_type
            THEN (IF t \in DOMAIN sm THEN sm[t] ELSE 0) + 1
            ELSE sm[t]]
    ELSE sm

\* Faulty variant: a failed series ends the loop.
AfterSeries_AbortOnFailure(c) == IF c.outcome = "ok" THEN "loop" ELSE "aborted"

\* lines 310-314, 361-362: the exception is caught, the loop goes on
AfterSeries(c) == "loop"

\* lines 373-378
Report(rs, sm) ==
    [ total_series |-> Len(rs), summary_by_type |-> sm, details |-> rs ]

EmptyMap == [x \in {} |-> 0]

Put(files, name, content) ==
    [n \in DOMAIN files \cup {name} |-> IF n = name THEN content ELSE files[n]]
Delete(files, name) == [n \in DOMAIN files \ {name} |-> files[n]]

\* what a file written for the image of call c holds
Content(c, state) ==
    [ state |-> state, shape |-> c.shape, volume |-> c.volume,
      voxel_size |-> c.voxel_size ]

\* line 289: nib.save(nii_img, filepath.replace('.gz', ''))
AfterSave(files, c) ==
    Put(files, IntermediateName(c.filename), Content(c, "complete"))

\* lines 292-294: the compressed file is a copy of the uncompressed one
AfterCompress(files, c) ==
    Put(files, c.filename, files[IntermediateName(c.filename)])

\* Faulty variant: the uncompressed file is left behind.
AfterRemove_KeepsIntermediate(files, c) == files

\* line 297: os.remove(filepath.replace('.gz', ''))
AfterRemove(files, c) == Delete(files, IntermediateName(c.filename))

HelpersIdle ==
    /\ name_in = <<>>
    /\ name_out = <<>>
    /\ order_runs = <<>>

BatchIdle ==
    /\ tree = <<>>
    /\ dcm_files = <<>>
    /\ dicom_series = <<>>
    /\ idx = 0
    /\ cur = NoCall
    /\ results = <<>>
    /\ summary = EmptyMap
    /\ fs = EmptyMap
    /\ now = 0
    /\ attempts = <<>>
    /\ report = <<>>

(***************************************************************************)
(* SpecSort: one call of sort_dicom_slices on an arbitrary list of files.  *)
(***************************************************************************)
SortPositions ==
    { << Some(Some(2)), None >>, << Some(Some(3)), Some(4) >>,
      << Some(None), None >>, << None, Some(2) >>, << None, None >> }

SliceKinds ==
    { [DefaultFile EXCEPT !.InstanceNumber = n, !.SliceLocation = p[1],
                          !.ImagePositionPatient = p[2]] :
        n \in {None, Some(1), Some(2)}, p \in SortPositions }
    \cup { [DefaultFile EXCEPT !.pixel_ok = FALSE] }

InitSort ==
    /\ pc = "sort"
    /\ scan_types_info = ScanTypesInfo
    /\ cls_md = None
    /\ cls_label = "(not called)"
    /\ cls_other = "(not called)"
    /\ cls_again = "(not called)"
    /\ \E n \in 0..MaxSlices : \E k \in [1..n -> SliceKinds] :
         filepaths = [i \in 1..n |-> NamedFile(k[i], i)]
    /\ sort_result = NotCalled
    /\ BatchIdle
    /\ HelpersIdle

SortSlices ==
    /\ pc = "sort"
    /\ sort_result' = sort_dicom_slices(filepaths)
    /\ pc' = "sorted"
    /\ UNCHANGED <<scan_types_info, clsVars, filepaths, batchVars, helperVars>>

NextSort == SortSlices

SpecSort == InitSort /\ [][NextSort]_vars

(***************************************************************************)
(* Inputs of the stand-alone classification runs: metadata records as      *)
(* extract_dicom_metadata builds them (lower-cased, trimmed text fields,   *)
(* timings as numbers with 0 for an absent value).                         *)
(***************************************************************************)
Tokens ==
    { <<"t","1">>, <<"t","2">>, <<"f","l","a","i","r">>, <<"p","o","s","t">>,
      <<"g","d">>, <<"m","p","r">>, <<"a","x">>, <<"d","w","i">>, <<"+","c">> }

ClsProtocols == { <<>>, <<"p","o","s","t">>, <<"t","2">> }

\* <<SequenceName, ScanOptions>>
ClsSequenceOptions ==
    { << <<>>, <<>> >>, << <<"t","s","e">>, <<>> >>, << <<>>, <<"c","e">> >> }

ClsAgents == { <<>>, <<"g","d">> }

\* <<EchoTime, RepetitionTime>> in ms
ClsTimings ==
    { <<0, 0>>, <<15, 500>>, <<90, 4000>>, <<15, 0>>, <<60, 5000>>,
      <<30, 800>>, <<31, 500>>, <<-5, 500>> }

(***************************************************************************)
(* SpecClassify: one call of determine_scan_type on an arbitrary metadata  *)
(* record, or on an absent one.                                            *)
(***************************************************************************)
InitClassify ==
    /\ pc = "classify"
    /\ scan_types_info = ScanTypesInfo
    /\ \/ cls_md = None
       \/ \E n \in 0..MaxTokens : \E ts \in [1..n -> Tokens] :
          \E p \in ClsProtocols, so \in ClsSequenceOptions, a \in ClsAgents,
             t \in ClsTimings :
            cls_md = Some(Metadata(Join(ts, <<" ">>), p, so[1], so[2], a,
                                   t[1], t[2], 1, <<>>))
    /\ cls_label = "(not called)"
    /\ cls_other = "(not called)"
    /\ cls_again = "(not called)"
    /\ filepaths = <<>>
    /\ sort_result = NotCalled
    /\ BatchIdle
    /\ HelpersIdle

Classify ==
    /\ pc = "classify"
    /\ cls_label' = determine_scan_type(scan_types_info, cls_md)
    /\ pc' = "classified"
    /\ scan_types_info' = TableAfterCall(scan_types_info, cls_md)
    /\ UNCHANGED <<cls_md, cls_other, cls_again, sortVars, batchVars, helperVars>>

NextClassify == Classify

SpecClassify == InitClassify /\ [][NextClassify]_vars

(***************************************************************************)
(* Spec: one run of process_all_series on an input tree.                   *)
(***************************************************************************)
FileKinds ==
    { [DefaultFile EXCEPT !.SeriesDescription = <<"T","1"," ","a">>,
                          !.InstanceNumber = Some(2),
                          !.SliceLocation = Some(Some(2))],
      [DefaultFile EXCEPT !.SeriesDescription = <<"t","1","-","a"," ">>,
                          !.path.name = <<"f",".","I","M","A">>,
                          !.InstanceNumber = Some(1)],
      [DefaultFile EXCEPT !.header_ok = FALSE],
      [DefaultFile EXCEPT !.path.name = <<"f",".","t","x","t">>],
      [DefaultFile EXCEPT !.SeriesNumber = 2,
                          !.SeriesDescription = <<"t","2">>,
                          !.pixel_ok = FALSE],
      [DefaultFile EXCEPT !.SeriesDescription = <<"T","1"," ","a">>,
                          !.InstanceNumber = Some(1),
                          !.shape = <<3, 3>>],
      [DefaultFile EXCEPT !.SeriesNumber = 3,
                          !.SeriesDescription = <<" ">>,
                          !.InstanceNumber = Some(1)] }

Init ==
    /\ pc = "walk"
    /\ scan_types_info = ScanTypesInfo
    /\ cls_md = None
    /\ cls_label = "(not called)"
    /\ cls_other = "(not called)"
    /\ cls_again = "(not called)"
    /\ filepaths = <<>>
    /\ sort_result = NotCalled
    /\ \E n \in 0..MaxFiles : \E k \in [1..n -> FileKinds] :
         tree = [i \in 1..n |-> NamedFile(k[i], i)]
    /\ dcm_files = <<>>
    /\ dicom_series = <<>>
    /\ idx = 0
    /\ cur = NoCall
    /\ results = <<>>
    /\ summary = EmptyMap
    /\ fs = EmptyMap
    /\ now = 0
    /\ attempts = <<>>
    /\ report = <<>>
    /\ HelpersIdle

standalone == <<cls_md, cls_label, cls_other, cls_again, filepaths, sort_result,
                helperVars>>

\* find_dicom_series, lines 162-166
Discover ==
    /\ pc = "walk"
    /\ dcm_files' = Walk(tree)
    /\ idx' = 1
    /\ pc' = "group"
    /\ UNCHANGED <<scan_types_info, standalone, tree, dicom_series, cur, results, summary, fs,
                   now, attempts, report>>

\* find_dicom_series, lines 171-184: one iteration of the grouping loop
GroupFile ==
    /\ pc = "group"
    /\ idx <= Len(Sampled(dcm_files))
    /\ LET dcm_file == dcm_files[idx]
           metadata == extract_dicom_metadata(dcm_file)
       IN dicom_series' =
            IF metadata # None
            THEN AddToSeries(dicom_series, SeriesKey(metadata[1]), metadata[1], dcm_file)
            ELSE dicom_series
    /\ idx' = idx + 1
    /\ UNCHANGED <<scan_types_info, standalone, pc, tree, dcm_files, cur, results, summary, fs,
                   now, attempts, report>>

\* find_dicom_series, line 186; process_all_series, lines 338-339
EndGrouping ==
    /\ pc = "group"
    /\ idx > Len(Sampled(dcm_files))
    /\ idx' = 1
    /\ pc' = "loop"
    /\ UNCHANGED <<scan_types_info, standalone, tree, dcm_files, dicom_series, cur, results,
                   summary, fs, now, attempts, report>>

\* process_all_series, lines 341-353, and convert_series_to_nifti, lines
\* 217-286: the next series is converted up to its output file name
StartSeries ==
    /\ pc = "loop"
    /\ idx <= Len(dicom_series)
    /\ \E t1 \in now..MaxClock : \E t2 \in t1..MaxClock : \E accepts \in BOOLEAN :
         LET series_info == dicom_series[idx]
             patient_id == PatientId(series_info)
             c == ConvertStart(scan_types_info, series_info, patient_id, t1, t2,
                               accepts)
             reads1 == ReadsClock(Prefix(patient_id, PatientLength), MaxFilenameLength)
             reads2 == ReadsClock(Prefix(series_info.metadata.SeriesDescription, DescLength),
                                  MaxFilenameLength)
         IN /\ cur' = c
            /\ now' = IF c.outcome # "saving" THEN now
                      ELSE IF reads2 THEN t2
                      ELSE IF reads1 THEN t1
                      ELSE now
            /\ pc' = IF c.outcome = "saving" THEN "save" ELSE "accumulate"
    /\ scan_types_info' = TableAfterCall(scan_types_info, Some(dicom_series[idx].metadata))
    /\ attempts' = Append(attempts, dicom_series[idx].key)
    /\ UNCHANGED <<standalone, tree, dcm_files, dicom_series, idx, results,
                   summary, fs, report>>

\* line 289: nib.save writes the uncompressed file, or fails
SaveUncompressed ==
    /\ pc = "save"
    /\ \/ /\ fs' = AfterSave(fs, cur)
          /\ pc' = "compress"
          /\ cur' = cur
       \/ /\ fs' \in { fs, Put(fs, IntermediateName(cur.filename),
                                 Content(cur, "partial")) }
          /\ pc' = "accumulate"
          /\ cur' = [cur EXCEPT !.outcome = "failed"]
    /\ UNCHANGED <<scan_types_info, standalone, tree, dcm_files, dicom_series, idx, results,
                   summary, now, attempts, report>>

\* lines 292-294: the compressed copy is written, or the write fails
Compress ==
    /\ pc = "compress"
    /\ \/ /\ fs' = AfterCompress(fs, cur)
          /\ pc' = "remove"
          /\ cur' = cur
       \/ /\ fs' \in { fs, Put(fs, cur.filename, Content(cur, "partial")) }
          /\ pc' = "accumulate"
          /\ cur' = [cur EXCEPT !.outcome = "failed"]
    /\ UNCHANGED <<scan_types_info, standalone, tree, dcm_files, dicom_series, idx, results,
                   summary, now, attempts, report>>

\* lines 297-308: the intermediate is removed and the record returned, or
\* os.remove fails
RemoveIntermediate ==
    /\ pc = "remove"
    /\ \/ /\ fs' = AfterRemove(fs, cur)
          /\ cur' = [cur EXCEPT !.outcome = "ok"]
       \/ /\ fs' = fs
          /\ cur' = [cur EXCEPT !.outcome = "failed"]
    /\ pc' = "accumulate"
    /\ UNCHANGED <<scan_types_info, standalone, tree, dcm_files, dicom_series, idx, results,
                   summary, now, attempts, report>>

\* process_all_series, lines 355-362
Accumulate ==
    /\ pc = "accumulate"
    /\ results' = NextResults(results, cur)
    /\ summary' = NextSummary(summary, cur)
    /\ idx' = idx + 1
    /\ pc' = AfterSeries(cur)
    /\ UNCHANGED <<scan_types_info, standalone, tree, dcm_files, dicom_series, cur, fs, now,
                   attempts, report>>

\* process_all_series, lines 365-367, and save_report
SaveReport ==
    /\ pc = "loop"
    /\ idx > Len(dicom_series)
    /\ report' = Append(report, Report(results, summary))
    /\ pc' = "done"
    /\ UNCHANGED <<scan_types_info, standalone, tree, dcm_files, dicom_series, idx, cur, results,
                   summary, fs, now, attempts>>

Next ==
    \/ Discover
    \/ GroupFile
    \/ EndGrouping
    \/ StartSeries
    \/ SaveUncompressed
    \/ Compress
    \/ RemoveIntermediate
    \/ Accumulate
    \/ SaveReport

Spec == Init /\ [][Next]_vars

(***************************************************************************)
(* SpecVolume: one run of process_all_series on a tree holding the slices  *)
(* of one series, with the attributes read during assembly.                *)
(***************************************************************************)
VolumeKinds ==
    { [DefaultFile EXCEPT !.InstanceNumber = Some(1)],
      [DefaultFile EXCEPT !.pixel_ok = FALSE],
      [DefaultFile EXCEPT !.InstanceNumber = Some(2),
                          !.Modality = <<"C","T">>,
                          !.RescaleSlope = Some(1),
                          !.RescaleIntercept = Some(-1024),
                          !.pixel = 1024,
                          !.PixelSpacing = Some(<<1, 3>>),
                          !.SliceThickness = Some(5)],
      [DefaultFile EXCEPT !.Modality = <<"C","T">>,
                          !.RescaleSlope = Some(2),
                          !.pixel = 5,
                          !.PixelSpacing = Some(<<4>>),
                          !.SliceThickness = Some(0)],
      [DefaultFile EXCEPT !.InstanceNumber = Some(3),
                          !.RescaleSlope = Some(2),
                          !.RescaleIntercept = Some(3),
                          !.pixel = 9,
                          !.SliceThickness = Some(-2)],
      [DefaultFile EXCEPT !.InstanceNumber = Some(1),
                          !.has_pixels = FALSE] }

InitVolume ==
    /\ pc = "walk"
    /\ scan_types_info = ScanTypesInfo
    /\ cls_md = None
    /\ cls_label = "(not called)"
    /\ cls_other = "(not called)"
    /\ cls_again = "(not called)"
    /\ filepaths = <<>>
    /\ sort_result = NotCalled
    /\ \E n \in 0..MaxFiles : \E k \in [1..n -> VolumeKinds] :
         tree = [i \in 1..n |-> NamedFile(k[i], i)]
    /\ dcm_files = <<>>
    /\ dicom_series = <<>>
    /\ idx = 0
    /\ cur = NoCall
    /\ results = <<>>
    /\ summary = EmptyMap
    /\ fs = EmptyMap
    /\ now = 0
    /\ attempts = <<>>
    /\ report = <<>>
    /\ HelpersIdle

SpecVolume == InitVolume /\ [][Next]_vars

(***************************************************************************)
(* SpecOrder: the series groups found in a tree are converted by the loop  *)
(* of process_all_series twice, each time into an empty output directory:  *)
(* in the order of the dict and in an arbitrary order.  No file operation  *)
(* fails and the clock stands at t during both runs.                       *)
(***************************************************************************)
\* a conversion whose file operations all succeed (lines 289-308)
Finished(started) ==
    IF started.outcome = "saving" THEN [started EXCEPT !.outcome = "ok"] ELSE started

\* lines 289-297 without a failure
Serialized(files, c) ==
    IF c.outcome = "ok"
    THEN AfterRemove(AfterCompress(AfterSave(files, c), c), c)
    ELSE files

\* lines 353-360: one pass of the loop body for the returned value c
Accumulated(acc, c) ==
    [ results |-> NextResults(acc.results, c),
      summary |-> NextSummary(acc.summary, c),
      fs |-> Serialized(acc.fs, c) ]

\* lines 346-353
ConvertedAt(info, series_info, t, accepts) ==
    Finished(ConvertStart(info, series_info, PatientId(series_info), t, t, accepts))

\* lines 341-362 for the series order[i], order[i + 1], ...
RECURSIVE LoopFrom(_, _, _, _, _, _, _)
LoopFrom(info, series, order, i, acc, t, accepts) ==
    IF i > Len(series) THEN acc
    ELSE LoopFrom(TableAfterCall(info, Some(series[order[i]].metadata)),
                  series, order, i + 1,
                  Accumulated(acc, ConvertedAt(info, series[order[i]], t, accepts)),
                  t, accepts)

RunInOrder(info, series, order, t, accepts) ==
    [ order |-> order,
      outcome |-> LoopFrom(info, series, order, 1,
                           [results |-> <<>>, summary |-> EmptyMap, fs |-> EmptyMap],
                           t, accepts) ]

RunOrders ==
    /\ pc = "loop"
    /\ \E order \in Permutations(DOMAIN dicom_series) :
       \E t \in 0..MaxClock : \E accepts \in BOOLEAN :
         order_runs' =
           << RunInOrder(scan_types_info, dicom_series,
                         [i \in DOMAIN dicom_series |-> i], t, accepts),
              RunInOrder(scan_types_info, dicom_series, order, t, accepts) >>
    /\ pc' = "compared"
    /\ UNCHANGED <<scan_types_info, clsVars, sortVars, batchVars, name_in, name_out>>

NextOrder ==
    \/ Discover
    \/ GroupFile
    \/ EndGrouping
    \/ RunOrders

SpecOrder == Init /\ [][NextOrder]_vars

(***************************************************************************)
(* SpecCalls: determine_scan_type is called on a record, other calls of    *)
(* the converter are made, and it is called on the same record again.      *)
(***************************************************************************)
CallTimings == { <<0, 0>>, <<15, 500>> }

OtherMetadata ==
    { Metadata(<<"f","l","a","i","r">>, <<>>, <<>>, <<>>, <<>>, 0, 0, 2, <<>>),
      Metadata(<<"t","1"," ","p","o","s","t">>, <<>>, <<>>, <<>>, <<"g","d">>, 15, 500, 3, <<>>) }

InitCalls ==
    /\ pc = "first"
    /\ scan_types_info = ScanTypesInfo
    /\ \E n \in 0..MaxTokens : \E ts \in [1..n -> Tokens] :
       \E p \in { <<>>, <<"p","o","s","t">> }, a \in ClsAgents, t \in CallTimings :
         cls_md = Some(Metadata(Join(ts, <<" ">>), p, <<>>, <<>>, a, t[1], t[2], 1, <<>>))
    /\ cls_label = "(not called)"
    /\ cls_other = "(not called)"
    /\ cls_again = "(not called)"
    /\ filepaths = <<>>
    /\ sort_result = NotCalled
    /\ BatchIdle
    /\ HelpersIdle

FirstCall ==
    /\ pc = "first"
    /\ cls_label' = determine_scan_type(scan_types_info, cls_md)
    /\ scan_types_info' = TableAfterCall(scan_types_info, cls_md)
    /\ pc' = "between"
    /\ UNCHANGED <<cls_md, cls_other, cls_again, sortVars, batchVars, helperVars>>

OtherCall ==
    /\ pc = "between"
    /\ cls_other = "(not called)"
    /\ \E m \in OtherMetadata :
         /\ cls_other' = determine_scan_type(scan_types_info, Some(m))
         /\ scan_types_info' = TableAfterCall(scan_types_info, Some(m))
    /\ UNCHANGED <<pc, cls_md, cls_label, cls_again, sortVars, batchVars, helperVars>>

SortCall ==
    /\ pc = "between"
    /\ ~ sort_result.called
    /\ filepaths' = << NamedFile([DefaultFile EXCEPT !.InstanceNumber = Some(2)], 1),
                       NamedFile([DefaultFile EXCEPT !.InstanceNumber = Some(1)], 2) >>
    /\ sort_result' = sort_dicom_slices(filepaths')
    /\ UNCHANGED <<pc, scan_types_info, clsVars, batchVars, helperVars>>

SecondCall ==
    /\ pc = "between"
    /\ cls_again' = determine_scan_type(scan_types_info, cls_md)
    /\ scan_types_info' = TableAfterCall(scan_types_info, cls_md)
    /\ pc' = "second"
    /\ UNCHANGED <<cls_md, cls_label, cls_other, sortVars, batchVars, helperVars>>

NextCalls == FirstCall \/ OtherCall \/ SortCall \/ SecondCall

SpecCalls == InitCalls /\ [][NextCalls]_vars

(***************************************************************************)
(* SpecNames: the patient id of one series is resolved as in               *)
(* process_all_series and the components of its output file name are       *)
(* built as in convert_series_to_nifti.                                    *)
(***************************************************************************)
RECURSIVE Repeat(_, _)
Repeat(unit, k) == IF k = 0 THEN <<>> ELSE unit \o Repeat(unit, k - 1)

NameUnits == { <<"A">>, <<"-">>, <<"a"," ","b">> }

\* repetitions: around the two truncation lengths of lines 282-283
NameRepeats ==
    { 0, 1, 2, PatientLength, PatientLength + 1, DescLength, DescLength + 1 }

\* the PatientID attribute of the first file of the series
NamePatients ==
    { Repeat(u, k) : u \in NameUnits, k \in NameRepeats }
    \cup { <<"U","n","k","n","o","w","n">>, <<"?">>, <<"P","8"," ">> }

\* its SeriesDescription attribute
NameDescriptions ==
    { Repeat(u, k) : u \in NameUnits, k \in NameRepeats }
    \cup { <<" ">>, <<"T","1",".","g","z">> }

\* the directory of the file, as path components
NameDirs ==
    { << <<"P","8">>, <<"s","t">> >>, << <<"s","t">> >>, << >>,
      << <<"?">>, <<"s","t">> >>, << <<"r">>, <<"P","9">>, <<"s","t">> >> }

InitNames ==
    /\ pc = "resolve"
    /\ scan_types_info = ScanTypesInfo
    /\ cls_md = None
    /\ cls_label = "(not called)"
    /\ cls_other = "(not called)"
    /\ cls_again = "(not called)"
    /\ filepaths = <<>>
    /\ sort_result = NotCalled
    /\ BatchIdle
    /\ \E p \in NamePatients, d \in NameDescriptions, dir \in NameDirs :
         LET dcm_file == [DefaultFile EXCEPT !.PatientID = p,
                                             !.SeriesDescription = d,
                                             !.path.dir = dir]
             metadata == extract_dicom_metadata(dcm_file)[1]
         IN name_in = AddToSeries(<<>>, SeriesKey(metadata), metadata, dcm_file)[1]
    /\ name_out = <<>>
    /\ order_runs = <<>>

\* process_all_series, lines 346-351
ResolvePatient ==
    /\ pc = "resolve"
    /\ name_out' = [ patient_id |-> PatientId(name_in),
                     safe_patient_id |-> <<>>, safe_series_desc |-> <<>>,
                     filename |-> <<>> ]
    /\ pc' = "name"
    /\ UNCHANGED <<scan_types_info, clsVars, sortVars, batchVars, name_in, order_runs>>

\* convert_series_to_nifti, lines 278-285
BuildName ==
    /\ pc = "name"
    /\ \E t1 \in 0..MaxClock : \E t2 \in t1..MaxClock :
         LET series_desc == name_in.metadata.SeriesDescription
             series_num == name_in.metadata.SeriesNumber
             scan_type == determine_scan_type(scan_types_info, Some(name_in.metadata))
         IN name_out' =
              [ name_out EXCEPT
                  !.safe_patient_id = SafePatientId(name_out.patient_id, t1),
                  !.safe_series_desc = SafeSeriesDesc(series_desc, t2),
                  !.filename = OutputFilename(name_out.patient_id, scan_type,
                                              series_num, series_desc, t1, t2) ]
    /\ pc' = "named"
    /\ UNCHANGED <<scan_types_info, clsVars, sortVars, batchVars, name_in, order_runs>>

NextNames == ResolvePatient \/ BuildName

SpecNames == InitNames /\ [][NextNames]_vars

(***************************************************************************)
(* SpecGroup: one pass of the grouping loop of find_dicom_series (lines    *)
(* 172-184) on the groups built from the files analysed before it, and the *)
(* label convert_series_to_nifti then gives to one of the groups.          *)
(***************************************************************************)
MaxGrouped == 2

GroupKinds ==
    { [DefaultFile EXCEPT !.InstanceNumber = Some(1)],
      [DefaultFile EXCEPT !.SeriesDescription = <<"T","1">>,
                          !.ContrastBolusAgent = <<"G","d">>,
                          !.EchoTime = 15],
      [DefaultFile EXCEPT !.SeriesNumber = 2,
                          !.SeriesDescription = <<"t","2">>],
      [DefaultFile EXCEPT !.header_ok = FALSE] }

\* lines 172-184: the body of the loop for one file
GroupStep(series, dcm_file) ==
    IF extract_dicom_metadata(dcm_file) # None
    THEN AddToSeries(series, SeriesKey(extract_dicom_metadata(dcm_file)[1]),
                     extract_dicom_metadata(dcm_file)[1], dcm_file)
    ELSE series

\* the groups after the first n files of the list
RECURSIVE GroupsAfter(_, _)
GroupsAfter(files, n) ==
    IF n = 0 THEN <<>> ELSE GroupStep(GroupsAfter(files, n - 1), files[n])

InitGroup ==
    /\ pc = "add"
    /\ scan_types_info = ScanTypesInfo
    /\ cls_md = None
    /\ cls_label = "(not called)"
    /\ cls_other = "(not called)"
    /\ cls_again = "(not called)"
    /\ filepaths = <<>>
    /\ sort_result = NotCalled
    /\ \E n \in 1..(MaxGrouped + 1) : \E k \in [1..n -> GroupKinds] :
         /\ tree = [i \in 1..n |-> NamedFile(k[i], i)]
         /\ dcm_files = tree
         /\ dicom_series = GroupsAfter(tree, n - 1)
         /\ idx = n
    /\ cur = NoCall
    /\ results = <<>>
    /\ summary = EmptyMap
    /\ fs = EmptyMap
    /\ now = 0
    /\ attempts = <<>>
    /\ report = <<>>
    /\ HelpersIdle

\* find_dicom_series, lines 172-184, for the file dcm_files[idx]
AddFile ==
    /\ pc = "add"
    /\ dicom_series' = GroupStep(dicom_series, dcm_files[idx])
    /\ pc' = "added"
    /\ UNCHANGED <<scan_types_info, standalone, tree, dcm_files, idx, cur, results,
                   summary, fs, now, attempts, report>>

\* convert_series_to_nifti, lines 223-226, for one of the groups
LabelGroup ==
    /\ pc = "added"
    /\ \E g \in DOMAIN dicom_series :
         /\ idx' = g
         /\ cls_md' = Some(dicom_series[g].metadata)
         /\ cls_label' = determine_scan_type(scan_types_info,
                                             Some(dicom_series[g].metadata))
         /\ scan_types_info' = TableAfterCall(scan_types_info,
                                              Some(dicom_series[g].metadata))
    /\ pc' = "labelled"
    /\ UNCHANGED <<cls_other, cls_again, sortVars, helperVars, tree, dcm_files,
                   dicom_series, cur, results, summary, fs, now, attempts, report>>

NextGroup == AddFile \/ LabelGroup

SpecGroup == InitGroup /\ [][NextGroup]_vars

(***************************************************************************)
(* Vocabulary used by the statements about classification.                 *)
(***************************************************************************)
TableOrder == << "T1", "T1-CE", "T2", "FLAIR", "DWI", "ADC" >>

ScanTypeLabels ==
    { "T1", "T1-CE", "T2", "FLAIR", "DWI", "ADC", "T1-MPR", "T2-MPR", "MPR",
      "Unknown" }

ContrastTokens ==
    { <<"+","c">>, <<"c","o","n","t","r","a","s","t">>, <<"c","e">>,
      <<"p","o","s","t">>, <<"g","d">> }

\* the keyword tokens the table lists for a scan type
KeywordsOf(name) ==
    LET row == CHOOSE r \in { scan_types_info[i] : i \in DOMAIN scan_types_info } :
                   r.name = name
    IN { row.keywords[k] : k \in DOMAIN row.keywords }

\* positions in table order of the types having a keyword inside the text
MatchingTypes(text) ==
    { i \in DOMAIN TableOrder :
        \E kw \in KeywordsOf(TableOrder[i]) : Contains(text, kw) }

Least(S) == CHOOSE x \in S : \A y \in S : x <= y

Classified == pc = "classified" /\ cls_md # None

(***************************************************************************)
(* C6: whenever the concatenated text holds a keyword of some scan type,   *)
(* the label is the earliest type in the order T1, T1-CE, T2, FLAIR, DWI,  *)
(* ADC having a keyword in the text, T1 being replaced by T1-CE when the   *)
(* contrast test succeeded; text with `t2` and `flair` and no T1 / T1-CE   *)
(* keyword is labelled T2.                                                 *)
(***************************************************************************)
C6_KeywordTableOrder ==
    Classified =>
      LET md == cls_md[1]
          text == TextCombined(md)
          hits == MatchingTypes(text)
          first == TableOrder[Least(hits)]
      IN /\ hits # {} =>
              cls_label = IF first = "T1" /\ HasContrast(md) THEN "T1-CE" ELSE first
         /\ ( /\ Contains(text, <<"t","2">>)
              /\ Contains(text, <<"f","l","a","i","r">>)
              /\ 1 \notin hits /\ 2 \notin hits ) => cls_label = "T2"

C6_Witness ==
    /\ Classified
    /\ Contains(TextCombined(cls_md[1]), <<"t","2">>)
    /\ Contains(TextCombined(cls_md[1]), <<"f","l","a","i","r">>)
    /\ MatchingTypes(TextCombined(cls_md[1])) = {3, 4}
    /\ cls_label = "T2"

(***************************************************************************)
(* C7 as stated: contrast counts as detected when a contrast token occurs  *)
(* anywhere in the concatenated text fields or the contrast-agent field is *)
(* non-empty, and then a record whose keyword match is T1 is labelled      *)
(* T1-CE, never T1.                                                        *)
(***************************************************************************)
C7_ContrastAnywhereUpgradesT1 ==
    Classified =>
      LET md == cls_md[1]
          text == TextCombined(md)
          detected == \/ \E tok \in ContrastTokens : Contains(text, tok)
                      \/ md.ContrastBolusAgent # <<>>
          hits == MatchingTypes(text)
      IN (detected /\ hits # {} /\ Least(hits) = 1) => cls_label = "T1-CE"

(***************************************************************************)
(* C8: every call returns a label of the fixed vocabulary; an absent       *)
(* record, and a record to which no keyword, no timing range and no        *)
(* multiplanar token applies, is labelled Unknown.                         *)
(***************************************************************************)
NoRuleApplies(md) ==
    LET text == TextCombined(md) IN
    /\ MatchingTypes(text) = {}
    /\ ~ ( /\ md.EchoTime > 0 /\ md.RepetitionTime > 0
           /\ \E i \in DOMAIN scan_types_info :
                /\ scan_types_info[i].TE_range[1] <= md.EchoTime
                /\ md.EchoTime <= scan_types_info[i].TE_range[2]
                /\ scan_types_info[i].TR_range[1] <= md.RepetitionTime
                /\ md.RepetitionTime <= scan_types_info[i].TR_range[2] )
    /\ ~ Contains(text, <<"m","p","r">>)
    /\ ~ Contains(text, <<"m","u","l","t","i","p","l","a","n","a","r">>)

C8_ClassifierTotal ==
    pc = "classified" =>
      /\ cls_label \in ScanTypeLabels
      /\ cls_md = None => cls_label = "Unknown"
      /\ (cls_md # None /\ NoRuleApplies(cls_md[1])) => cls_label = "Unknown"

C8_Witness ==
    /\ Classified
    /\ cls_md[1].SeriesDescription = <<>>
    /\ cls_md[1].EchoTime = 0 /\ cls_md[1].RepetitionTime = 0
    /\ NoRuleApplies(cls_md[1])
    /\ cls_label = "Unknown"

(***************************************************************************)
(* C10: when every readable file has a position value, the returned        *)
(* sequence is in non-decreasing lexicographic order of (position as a     *)
(* number, instance number) and is a permutation of the readable files.    *)
(***************************************************************************)
ReadableFiles == { i \in DOMAIN filepaths : filepaths[i].pixel_ok }

WellFormed ==
    \A i \in ReadableFiles : filepaths[i].SliceLocation # Some(None)

\* position in half millimetres and instance number, read off the file
PositionOf(f) ==
    IF f.SliceLocation # None THEN f.SliceLocation[1][1]
    ELSE IF f.ImagePositionPatient # None THEN f.ImagePositionPatient[1]
    ELSE 2 * (IF f.InstanceNumber = None THEN 0 ELSE f.InstanceNumber[1])

InstanceOf(f) == IF f.InstanceNumber = None THEN 0 ELSE f.InstanceNumber[1]

C10_SortedPermutation ==
    (pc = "sorted" /\ WellFormed) =>
      /\ ~ sort_result.raised
      /\ LET out == sort_result.value IN
         /\ \A i \in 1..(Len(out) - 1) :
              \/ PositionOf(out[i].ds) < PositionOf(out[i + 1].ds)
              \/ /\ PositionOf(out[i].ds) = PositionOf(out[i + 1].ds)
                 /\ InstanceOf(out[i].ds) <= InstanceOf(out[i + 1].ds)
         /\ Len(out) = Cardinality(ReadableFiles)
         /\ \A i \in ReadableFiles :
              \E j \in DOMAIN out : out[j].filepath = filepaths[i].path /\ out[j].ds = filepaths[i]

\* equal positions in the input, instance numbers out of order, one file unreadable
C10_Witness ==
    /\ pc = "sorted" /\ WellFormed /\ ~ sort_result.raised
    /\ Len(filepaths) = 3
    /\ Cardinality(ReadableFiles) = 2
    /\ \E i, j \in ReadableFiles :
         /\ i < j
         /\ PositionOf(filepaths[i]) = PositionOf(filepaths[j])
         /\ InstanceOf(filepaths[i]) > InstanceOf(filepaths[j])
    /\ Len(sort_result.value) = 2

GroupingDone == pc \notin { "walk", "group", "classify", "classified", "sort",
                            "sorted", "first", "between", "second" }

\* the discovered files inside the sampling cutoff
InCutoff == { i \in DOMAIN dcm_files : i <= SampleCeiling }

AllYieldMetadata == \A i \in InCutoff : dcm_files[i].header_ok

\* the places <<group, position>> of the file lists that hold a path
PlacesOf(path) ==
    { gj \in UNION { { <<g, j>> : j \in DOMAIN dicom_series[g].files } :
                     g \in DOMAIN dicom_series } :
        dicom_series[gj[1]].files[gj[2]].path = path }

CountOfType(t) == Cardinality({ i \in DOMAIN results : results[i].scan_type = t })

C2_CountersMatchResults ==
    /\ [] ( /\ DOMAIN summary = { results[i].scan_type : i \in DOMAIN results }
            /\ \A t \in DOMAIN summary : summary[t] = CountOfType(t)
            /\ \A r \in DOMAIN report :
                 /\ report[r].total_series = Len(report[r].details)
                 /\ report[r].details = results
                 /\ report[r].summary_by_type = summary )
    /\ [][ (pc = "accumulate" /\ cur.outcome = "failed")
             => (results' = results /\ summary' = summary) ]_vars

\* a series converted, then a series failed during serialization
C2_Witness ==
    /\ pc = "done"
    /\ Len(attempts) = 2
    /\ Len(results) = 1
    /\ summary[results[1].scan_type] = 1
    /\ cur.outcome = "failed" /\ cur.filename # <<>>

(***************************************************************************)
(* C3: no failure of a series stops the run: after every series, failed or *)
(* not, the loop is back at its head with the next series; every series    *)
(* group is attempted exactly once, in order, and the report is written    *)
(* once, after the last series.                                            *)
(***************************************************************************)
C3_BatchNeverAborts ==
    /\ GroupingDone =>
         /\ pc \in { "loop", "save", "compress", "remove", "accumulate", "done" }
         /\ pc = "loop" => idx = Len(attempts) + 1
         /\ pc \notin { "loop", "done" } => idx = Len(attempts)
         /\ Len(attempts) <= Len(dicom_series)
         /\ \A i \in DOMAIN attempts : attempts[i] = dicom_series[i].key
         /\ Len(report) = (IF pc = "done" THEN 1 ELSE 0)
         /\ pc = "done" => Len(attempts) = Len(dicom_series)

\* the first series failed while compressing, the second was converted
C3_Witness ==
    /\ pc = "done"
    /\ Len(dicom_series) = 2
    /\ Len(results) = 1
    /\ cur.key = dicom_series[2].key /\ cur.outcome = "ok"
    /\ \E n \in DOMAIN fs : fs[n].state = "partial"
    /\ Len(report) = 1

(***************************************************************************)
(* C4 as stated: when a conversion fails during serialization, no          *)
(* partially written file is left at the series' .nii.gz path.             *)
(***************************************************************************)
C4_NoPartialFinalFile ==
    (pc = "accumulate" /\ cur.outcome = "failed" /\ cur.filename # <<>>) =>
      ~ (cur.filename \in DOMAIN fs /\ fs[cur.filename].state = "partial")

(***************************************************************************)
(* C5 as stated: the result records of a run name pairwise distinct output *)
(* files, and as many compressed files were produced for them as there are *)
(* records.                                                                *)
(***************************************************************************)
C5_DistinctOutputFiles ==
    pc = "done" =>
      /\ \A i, j \in DOMAIN results :
           i # j => results[i].filename # results[j].filename
      /\ Cardinality({ results[i].filename : i \in DOMAIN results }) = Len(results)

(***************************************************************************)
(* C17: the timing ranges decide the label only when no keyword of any     *)
(* scan type occurs in the concatenated text.  Then, with echo time and    *)
(* repetition time both above zero, the label is the first type in table   *)
(* order whose inclusive TE range holds the echo time and whose inclusive  *)
(* TR range holds the repetition time, T1 becoming T1-CE when contrast     *)
(* was detected; with a timing at or below zero the ranges give no label   *)
(* and the multiplanar rule decides.                                       *)
(***************************************************************************)
RangeOf(name) ==
    CHOOSE r \in { scan_types_info[i] : i \in DOMAIN scan_types_info } : r.name = name

\* positions in table order of the types whose ranges hold both timings
RangeTypes(te, tr) ==
    { i \in DOMAIN TableOrder :
        /\ RangeOf(TableOrder[i]).TE_range[1] <= te
        /\ te <= RangeOf(TableOrder[i]).TE_range[2]
        /\ RangeOf(TableOrder[i]).TR_range[1] <= tr
        /\ tr <= RangeOf(TableOrder[i]).TR_range[2] }

MultiplanarLabels(text) ==
    IF \/ Contains(text, <<"m","p","r">>)
       \/ Contains(text, <<"m","u","l","t","i","p","l","a","n","a","r">>)
    THEN { "T1-MPR", "T2-MPR", "MPR" }
    ELSE { "Unknown" }

C17_NumericRangeRule ==
    Classified =>
      LET md == cls_md[1]
          text == TextCombined(md)
          hits == MatchingTypes(text)
          te == md.EchoTime
          tr == md.RepetitionTime
          fits == RangeTypes(te, tr)
          byKeyword == TableOrder[Least(hits)]
          byRange == TableOrder[Least(fits)]
      IN /\ hits # {} =>
              cls_label = IF byKeyword = "T1" /\ HasContrast(md) THEN "T1-CE"
                          ELSE byKeyword
         /\ (hits = {} /\ te > 0 /\ tr > 0 /\ fits # {}) =>
              cls_label = IF byRange = "T1" /\ HasContrast(md) THEN "T1-CE"
                          ELSE byRange
         /\ (hits = {} /\ (te <= 0 \/ tr <= 0)) =>
              cls_label \in MultiplanarLabels(text)

\* no keyword, timings on the upper bounds of the T1 ranges, contrast agent
C17_Witness ==
    /\ Classified
    /\ MatchingTypes(TextCombined(cls_md[1])) = {}
    /\ cls_md[1].EchoTime = 30 /\ cls_md[1].RepetitionTime = 800
    /\ HasContrast(cls_md[1])
    /\ cls_label = "T1-CE"

(***************************************************************************)
(* C18: for every readable slice the position used for sorting is the      *)
(* slice location when that attribute is present, otherwise the third      *)
(* component of the image position when that is present, otherwise the     *)
(* instance number, which is 0 when absent; a source of lower preference   *)
(* is never used while one of higher preference is present.                *)
(***************************************************************************)
C18_PositionPreference ==
    (pc = "sorted" /\ ~ sort_result.raised) =>
      \A j \in DOMAIN sort_result.value :
        LET f == sort_result.value[j].ds
            used == sort_result.value[j].slice_pos
        IN /\ f.SliceLocation # None => used = DS(f.SliceLocation[1][1])
           /\ (f.SliceLocation = None /\ f.ImagePositionPatient # None) =>
                used = DS(f.ImagePositionPatient[1])
           /\ (f.SliceLocation = None /\ f.ImagePositionPatient = None) =>
                /\ used = IS(InstanceOf(f))
                /\ f.InstanceNumber = None => used = IS(0)
           /\ sort_result.value[j].instance_num = InstanceOf(f)

\* a slice with both positions (they differ), one with the image position
\* only and one with neither position nor instance number
C18_Witness ==
    /\ pc = "sorted" /\ ~ sort_result.raised
    /\ \E i, j, k \in DOMAIN sort_result.value :
         LET out == sort_result.value IN
         /\ out[i].ds.SliceLocation # None /\ out[i].ds.ImagePositionPatient # None
         /\ out[i].ds.SliceLocation[1][1] # out[i].ds.ImagePositionPatient[1]
         /\ out[i].slice_pos = DS(out[i].ds.SliceLocation[1][1])
         /\ out[j].ds.SliceLocation = None /\ out[j].ds.ImagePositionPatient # None
         /\ out[j].slice_pos = DS(out[j].ds.ImagePositionPatient[1])
         /\ out[k].ds.SliceLocation = None /\ out[k].ds.ImagePositionPatient = None
         /\ out[k].ds.InstanceNumber = None
         /\ out[k].slice_pos = IS(0)

(***************************************************************************)
(* Vocabulary of the claims about one conversion                           *)
(***************************************************************************)
\* a convert_series_to_nifti call on dicom_series[idx] has passed assembly
Converting == pc \in {"save", "compress", "remove", "accumulate"}

Assembled == Converting /\ cur.filename # <<>>

\* the files of the series being converted that the sequencer can read
ReadOf(files) == { i \in DOMAIN files : files[i].pixel_ok }

\* the stored value, calibrated for a CT slice with both rescale attributes
PlaneValue(f) ==
    IF f.Modality = <<"C","T">> /\ f.RescaleSlope # None /\ f.RescaleIntercept # None
    THEN f.pixel * f.RescaleSlope[1] + f.RescaleIntercept[1]
    ELSE f.pixel

\* a readable file from which no volume can be assembled
Unusable(files) ==
    \E i \in ReadOf(files) :
      \/ files[i].SliceLocation = Some(None)
      \/ ~ files[i].has_pixels
      \/ \E j \in ReadOf(files) : files[j].shape # files[i].shape
      \/ files[i].SliceThickness = Some(0)
      \/ /\ files[i].PixelSpacing # None
         /\ \E k \in DOMAIN files[i].PixelSpacing[1] : files[i].PixelSpacing[1][k] = 0

(***************************************************************************)
(* C11: the last axis of the volume of a converted series is as long as    *)
(* the number of the series' files the sequencer read; a file that fails   *)
(* to parse is dropped and does not fail the series, and every read slice  *)
(* gives one plane, in the order the sequencer returned.                   *)
(***************************************************************************)
C11_SliceAxisCountsReadSlices ==
    /\ Converting =>
         LET files == dicom_series[idx].files
             sequenced == sort_dicom_slices(files).value
         IN /\ Assembled =>
                 /\ cur.shape[Len(cur.shape)] = Cardinality(ReadOf(files))
                 /\ Len(cur.volume) = Cardinality(ReadOf(files))
                 /\ \A k \in DOMAIN cur.volume :
                      cur.volume[k] = PlaneValue(sequenced[k].ds)
            /\ (~ Assembled /\ ReadOf(files) # {}) => Unusable(files)
    /\ (pc = "done" /\ Len(dicom_series) = 1) =>
         \A r \in DOMAIN results :
           results[r].shape[Len(results[r].shape)]
             = Cardinality(ReadOf(dicom_series[1].files))

\* two files, one of them unreadable: the volume has one plane
C11_Witness ==
    /\ pc = "done"
    /\ Len(dicom_series) = 1 /\ Len(dicom_series[1].files) = 2
    /\ ~ dicom_series[1].files[1].pixel_ok
    /\ Len(results) = 1
    /\ results[1].shape = <<2, 2, 1>>
    /\ results[1].original_files = 2

(***************************************************************************)
(* C19: during assembly the values of a slice are rescaled to              *)
(* value * slope + intercept exactly when the modality of the slice is CT  *)
(* and both the rescale slope and the rescale intercept are present; in    *)
(* every other case they are stacked unchanged.  With slope 1 and          *)
(* intercept -1024 a stored 1024 becomes 0.                                *)
(***************************************************************************)
C19_RescaleOnlyCalibratedCT ==
    Assembled =>
      LET sequenced == sort_dicom_slices(dicom_series[idx].files).value IN
      \A k \in DOMAIN cur.volume :
        LET f == sequenced[k].ds
            calibrated == /\ f.Modality = <<"C","T">>
                          /\ f.RescaleSlope # None
                          /\ f.RescaleIntercept # None
        IN /\ calibrated =>
                cur.volume[k] = f.pixel * f.RescaleSlope[1] + f.RescaleIntercept[1]
           /\ ~ calibrated => cur.volume[k] = f.pixel
           /\ ( /\ calibrated
                /\ f.RescaleSlope[1] = 1 /\ f.RescaleIntercept[1] = -1024
                /\ f.pixel = 1024 ) => cur.volume[k] = 0

\* a calibrated CT slice stacked with a slice of another modality that
\* carries both rescale attributes
C19_Witness ==
    /\ Assembled /\ cur.outcome = "ok"
    /\ LET sequenced == sort_dicom_slices(dicom_series[idx].files).value IN
       \E j, k \in DOMAIN cur.volume :
         /\ sequenced[j].ds.Modality = <<"C","T">>
         /\ sequenced[j].ds.RescaleSlope = Some(1)
         /\ sequenced[j].ds.RescaleIntercept = Some(-1024)
         /\ sequenced[j].ds.pixel = 1024
         /\ cur.volume[j] = 0
         /\ sequenced[k].ds.Modality # <<"C","T">>
         /\ sequenced[k].ds.RescaleSlope # None
         /\ sequenced[k].ds.RescaleIntercept # None
         /\ cur.volume[k] = sequenced[k].ds.pixel

OrDefault(value) == IF value # None /\ value[1] > 0 THEN value[1] ELSE 2

Component(list, k) ==
    IF list # None /\ Len(list[1]) >= k THEN Some(list[1][k]) ELSE None

C12_AffineDefaults ==
    /\ Assembled =>
         LET f == sort_dicom_slices(dicom_series[idx].files).value[1].ds IN
         cur.voxel_size = << OrDefault(Component(f.PixelSpacing, 1)),
                             OrDefault(Component(f.PixelSpacing, 2)),
                             OrDefault(f.SliceThickness) >>
    /\ \A r \in DOMAIN results :
         \A k \in DOMAIN results[r].voxel_size : results[r].voxel_size[k] > 0

(***************************************************************************)
(* C15: when sequencing a series yields no usable slice (every file fails  *)
(* to parse), the conversion returns the failure value without writing a   *)
(* file, the series adds no result record and no counter increment, and    *)
(* the run goes on with the next series.                                   *)
(***************************************************************************)
NoSliceParses ==
    /\ idx \in DOMAIN dicom_series
    /\ \A i \in DOMAIN dicom_series[idx].files : ~ dicom_series[idx].files[i].pixel_ok

C15_EmptySeriesAbandoned ==
    /\ [] ( (Converting /\ NoSliceParses) =>
              /\ pc = "accumulate"
              /\ cur.outcome = "failed"
              /\ cur.filename = <<>> )
    /\ [][ (pc = "loop" /\ NoSliceParses) =>
              /\ pc' = "accumulate"
              /\ cur'.outcome = "failed"
              /\ fs' = fs ]_vars
    /\ [][ (pc = "accumulate" /\ NoSliceParses) =>
              /\ results' = results
              /\ summary' = summary
              /\ fs' = fs
              /\ pc' = "loop"
              /\ idx' = idx + 1 ]_vars

\* a series without a readable file, then a series that was converted
C15_Witness ==
    /\ pc = "done"
    /\ Len(dicom_series) = 2
    /\ \A i \in DOMAIN dicom_series[1].files : ~ dicom_series[1].files[i].pixel_ok
    /\ Len(attempts) = 2
    /\ Len(results) = 1
    /\ Cardinality(DOMAIN fs) = 1
    /\ cur.key = dicom_series[2].key /\ cur.outcome = "ok"

(***************************************************************************)
(* Vocabulary of the claims about the patient id and the file name         *)
(***************************************************************************)
\* the name of the directory two levels above a file, empty when there is
\* no such directory
TwoLevelsAbove(path) ==
    IF Len(path.dir) >= 2 THEN path.dir[Len(path.dir) - 1] ELSE <<>>

Resolved == pc \in {"name", "named"}

IsPlaceholder(id) ==
    /\ Len(id) > Len(<<"P","a","t","i","e","n","t","_">>)
    /\ Prefix(id, 8) = <<"P","a","t","i","e","n","t","_">>

(***************************************************************************)
(* C14 as stated: a non-empty metadata patient id is used unchanged; an    *)
(* empty one is replaced by the name of the directory two levels above the *)
(* sample file, and only when that is empty too by a placeholder; the      *)
(* patient id passed to the conversion is never empty.                     *)
(***************************************************************************)
C14_PatientIdResolution ==
    Resolved =>
      LET given == name_in.metadata.PatientID
          folder == TwoLevelsAbove(name_in.sample_file)
      IN /\ given # <<>> => name_out.patient_id = given
         /\ (given = <<>> /\ folder # <<>>) => name_out.patient_id = folder
         /\ (given = <<>> /\ folder = <<>>) => IsPlaceholder(name_out.patient_id)
         /\ name_out.patient_id # <<>>

(***************************************************************************)
(* C14 amended: a metadata patient id that is non-empty and not the word   *)
(* `unknown` is used unchanged; an empty one, and `unknown`, is replaced   *)
(* by the name of the directory two levels above the sample file, and only *)
(* when that is empty too by a placeholder; the patient id passed to the   *)
(* conversion is never empty.                                              *)
(***************************************************************************)
C14_PatientIdResolutionUnknown ==
    Resolved =>
      LET given == name_in.metadata.PatientID
          missing == given = <<>> \/ given = <<"u","n","k","n","o","w","n">>
          folder == TwoLevelsAbove(name_in.sample_file)
      IN /\ ~ missing => name_out.patient_id = given
         /\ (missing /\ folder # <<>>) => name_out.patient_id = folder
         /\ (missing /\ folder = <<>>) => IsPlaceholder(name_out.patient_id)
         /\ name_out.patient_id # <<>>

\* an empty patient id and a sample file three directories deep
C14_Witness ==
    /\ pc = "named"
    /\ name_in.metadata.PatientID = <<>>
    /\ Len(name_in.sample_file.dir) = 3
    /\ name_out.patient_id = name_in.sample_file.dir[2]

(***************************************************************************)
(* C13 as stated: in every output file name the sanitized patient          *)
(* component is non-empty and at most 20 characters long and the sanitized *)
(* description component is non-empty and at most 30 characters long, also *)
(* when sanitization empties the string and the timestamp name is put in   *)
(* its place.                                                              *)
(***************************************************************************)
C13_ComponentLengths ==
    pc = "named" =>
      /\ name_out.safe_patient_id # <<>>
      /\ Len(name_out.safe_patient_id) <= 20
      /\ name_out.safe_series_desc # <<>>
      /\ Len(name_out.safe_series_desc) <= 30

(***************************************************************************)
(* C16 as stated: series are processed independently: converting the same  *)
(* series groups in two different orders gives the same set of result      *)
(* records, the same counters per type and the same final content of the   *)
(* output directory.                                                       *)
(***************************************************************************)
RecordsOf(run) == { run.outcome.results[i] : i \in DOMAIN run.outcome.results }

C16_OrderIndependent ==
    pc = "compared" =>
      /\ RecordsOf(order_runs[1]) = RecordsOf(order_runs[2])
      /\ Len(order_runs[1].outcome.results) = Len(order_runs[2].outcome.results)
      /\ order_runs[1].outcome.summary = order_runs[2].outcome.summary
      /\ order_runs[1].outcome.fs = order_runs[2].outcome.fs

\* the two runs differ only where two records name one file
OrderMattersOnlyOnSharedNames ==
    pc = "compared" =>
      \/ C16_OrderIndependent
      \/ \E i, j \in DOMAIN order_runs[1].outcome.results :
           /\ i # j
           /\ order_runs[1].outcome.results[i].filename
                = order_runs[1].outcome.results[j].filename

(***************************************************************************)
(* C21: while grouping, adding a file whose key matches an existing group  *)
(* only appends the file to the file list of that group: the metadata and  *)
(* the sample file of the group stay those of the first file met with the  *)
(* key and every other group is left as it was; hence the scan-type label  *)
(* of a series depends only on the metadata of its first file.             *)
(***************************************************************************)
\* the groups whose key is the key of file f, f yielding metadata
GroupsMatching(series, f) ==
    { g \in DOMAIN series :
        /\ extract_dicom_metadata(f) # None
        /\ series[g].key = SeriesKey(extract_dicom_metadata(f)[1]) }

RepresentedByFirstFile(g) ==
    /\ g.files # <<>>
    /\ Some(g.metadata) = extract_dicom_metadata(g.files[1])
    /\ g.sample_file = g.files[1].path

C21_GroupingFrame ==
    /\ [] ( /\ \A g \in DOMAIN dicom_series : RepresentedByFirstFile(dicom_series[g])
            /\ pc = "labelled" =>
                 cls_label =
                   determine_scan_type(ScanTypesInfo,
                       extract_dicom_metadata(dicom_series[idx].files[1])) )
    /\ [][ pc = "add" =>
             LET f == dcm_files[idx]
                 hit == GroupsMatching(dicom_series, f)
             IN /\ \A g \in DOMAIN dicom_series :
                     /\ g \in DOMAIN dicom_series'
                     /\ dicom_series'[g].key = dicom_series[g].key
                     /\ dicom_series'[g].metadata = dicom_series[g].metadata
                     /\ dicom_series'[g].sample_file = dicom_series[g].sample_file
                     /\ dicom_series'[g].files =
                          IF g \in hit THEN Append(dicom_series[g].files, f)
                          ELSE dicom_series[g].files
                /\ hit # {} =>
                     /\ Cardinality(hit) = 1
                     /\ Len(dicom_series') = Len(dicom_series) ]_vars

\* two groups; the file added last went into a group as its second file, its
\* metadata differ from those of the first file and alone would give T1-CE,
\* and the group is labelled T1
C21_Witness ==
    /\ pc = "labelled"
    /\ Len(dicom_series) = 2
    /\ Len(dicom_series[idx].files) = 2
    /\ dicom_series[idx].files[2] = dcm_files[Len(dcm_files)]
    /\ extract_dicom_metadata(dicom_series[idx].files[2])
         # extract_dicom_metadata(dicom_series[idx].files[1])
    /\ cls_label = "T1"
    /\ determine_scan_type(ScanTypesInfo,
                           extract_dicom_metadata(dicom_series[idx].files[2])) = "T1-CE"

(***************************************************************************)
(* C22: determine_scan_type never returns T1-MPR or T2-MPR: the            *)
(* multiplanar rule is reached only when no table keyword occurs in the    *)
(* concatenated text, `t1` and `t2` are table keywords of T1 and T2, so at *)
(* the multiplanar step the text holds neither and the only multiplanar    *)
(* label returned is MPR.                                                  *)
(***************************************************************************)
C22_NoTypedMultiplanarLabel ==
    pc = "classified" =>
      /\ cls_label \notin { "T1-MPR", "T2-MPR" }
      /\ cls_md # None =>
           LET text == TextCombined(cls_md[1])
               hits == MatchingTypes(text)
           IN /\ <<"t","1">> \in KeywordsOf("T1")
              /\ <<"t","2">> \in KeywordsOf("T2")
              /\ (Contains(text, <<"t","1">>) \/ Contains(text, <<"t","2">>)) =>
                    /\ hits # {}
                    /\ cls_label \in { TableOrder[i] : i \in hits } \cup { "T1-CE" }
              /\ cls_label = "MPR" =>
                    /\ hits = {}
                    /\ ~ Contains(text, <<"t","1">>)
                    /\ ~ Contains(text, <<"t","2">>)

\* the multiplanar step is reached and returns MPR
C22_Witness ==
    /\ Classified
    /\ Contains(TextCombined(cls_md[1]), <<"m","p","r">>)
    /\ MatchingTypes(TextCombined(cls_md[1])) = {}
    /\ cls_md[1].EchoTime = 0
    /\ cls_label = "MPR"

====
